---- MODULE Spec2Model ----
(***************************************************************************)
(* Model of pygame/detect.py: the label-file parsers, the input-tensor     *)
(* write (set_interpreter), the detection decoder (get_output) and the     *)
(* frame loop of main.                                                     *)
(*                                                                         *)
(* Conventions.  Python sequences are 0-based; a tensor t is a TLA+        *)
(* sequence and Python's t[i] is At(t, i).  Text is a sequence of          *)
(* one-character strings.  Box coordinates are integers, 0 and 1 being     *)
(* the literals 0.0 and 1.0 of make().  Scores and thresholds are          *)
(* integers counting hundredths, so that 100*score is the integer itself.  *)
(* An exception is the name of its Python class; "None" is no exception.   *)
(***************************************************************************)
EXTENDS Integers, Sequences, FiniteSets, TLC

VARIABLES
    pc,               \* position in main, or call/return of the function under study
    lines,            \* f.readlines() of the label file
    labels,           \* the label dict (a function id -> text)
    shape,            \* get_input_details()[0]['shape'] = <<1, height, width, channels>>
    data,             \* the buffer handed to set_interpreter: dims of the frame it holds
    writes,           \* number of assignments into the input tensor
    invokes,          \* number of interpreter.invoke() calls that were started
    boxes,            \* output tensor 0 (N rows of ymin, xmin, ymax, xmax)
    class_ids,        \* output tensor 1
    scores,           \* output tensor 2
    count,            \* output tensor 3
    score_threshold,  \* args.threshold
    results,          \* the list returned by get_output
    error,            \* the exception in flight, "None" when there is none
    raised_at,        \* the position in main at which the exception was raised
    error_text,       \* the text the exception's message quotes, <<>> when it quotes none
    started,          \* camera.start() returned
    stop_calls,       \* number of camera.stop() calls
    captures,         \* number of camera.get_image() calls
    reads,            \* number of get_output calls (output tensor reads)
    drawn,            \* label texts blitted on the current frame
    presents,         \* number of pygame.display.flip() calls
    infer_ok,         \* number of invoke() calls that returned
    infer_failed      \* an invoke() call raised

vars == <<pc, lines, labels, shape, data, writes, invokes, boxes, class_ids,
          scores, count, score_threshold, results, error, raised_at, error_text, started,
          stop_calls, captures, reads, drawn, presents, infer_ok, infer_failed>>

----------------------------------------------------------------------------
(* Bounds of the model. *)

MaxFrames == 2     \* frames the loop captures before only a stop signal is left
MaxDim == 4        \* widths and heights range over 1..MaxDim
MaxN == 3          \* largest capacity N of the output tensors
MaxOver == 1       \* how far the engine's count may exceed N
MaxScore == 2      \* scores and thresholds range over 0..MaxScore
CoordSlack == 1    \* coordinates range from 0.0 - CoordSlack to 1.0 + CoordSlack

----------------------------------------------------------------------------
(* Python and numpy primitives. *)

At(t, i) == t[i + 1]

Reversed(s) == [k \in 1..Len(s) |-> s[Len(s) + 1 - k]]

Max(a, b) == IF a >= b THEN a ELSE b

Min(a, b) == IF a <= b THEN a ELSE b

Zero == 0

One == 1

FullFrameRow == <<Zero, Zero, One, One>>

----------------------------------------------------------------------------
(* get_output, lines 73-90. *)

BBox(xmin, ymin, xmax, ymax) ==
    [xmin |-> xmin, ymin |-> ymin, xmax |-> xmax, ymax |-> ymax]

Object(id, score, bbox) == [id |-> id, score |-> score, bbox |-> bbox]

\* make reading the engine row as xmin, ymin, xmax, ymax.
make_xfirst(bx, ids, sc, i) ==
    LET row == At(bx, i)
        xmin == row[1]
        ymin == row[2]
        xmax == row[3]
        ymax == row[4]
    IN  Object(At(ids, i), At(sc, i),
               BBox(Max(Zero, xmin), Max(Zero, ymin), Min(One, xmax), Min(One, ymax)))

\* make without the clamps.
make_unclamped(bx, ids, sc, i) ==
    LET row == At(bx, i)
    IN  Object(At(ids, i), At(sc, i), BBox(row[2], row[1], row[4], row[3]))

make(bx, ids, sc, i) ==
    LET row == At(bx, i)
        ymin == row[1]
        xmin == row[2]
        ymax == row[3]
        xmax == row[4]
    IN  Object(At(ids, i), At(sc, i),
               BBox(Max(Zero, xmin), Max(Zero, ymin), Min(One, xmax), Min(One, ymax)))

\* scores[i] > score_threshold
PassesStrict(score, threshold) == score > threshold

\* scores[i] >= score_threshold
Passes(score, threshold) == score >= threshold

\* The list comprehension of line 90 from index i on, acc being the list so far.
\* scores[i] on an index past the tensor raises IndexError and nothing is returned.
RECURSIVE Comprehension(_, _, _, _, _, _, _)
Comprehension(bx, ids, sc, cnt, threshold, i, acc) ==
    IF i >= cnt THEN [error |-> "None", value |-> acc]
    ELSE IF i >= Len(sc) THEN [error |-> "IndexError", value |-> <<>>]
    ELSE IF Passes(At(sc, i), threshold)
         THEN Comprehension(bx, ids, sc, cnt, threshold, i + 1,
                            Append(acc, make(bx, ids, sc, i)))
         ELSE Comprehension(bx, ids, sc, cnt, threshold, i + 1, acc)

\* get_output returning the comprehension's list back to front.
get_output_reversed(bx, ids, sc, cnt, threshold) ==
    LET r == Comprehension(bx, ids, sc, cnt, threshold, 0, <<>>)
    IN  [error |-> r.error, value |-> Reversed(r.value)]

get_output(bx, ids, sc, cnt, threshold) ==
    Comprehension(bx, ids, sc, cnt, threshold, 0, <<>>)

----------------------------------------------------------------------------
(* Text primitives: str.strip, str.split(maxsplit=1), int, "%s" % v. *)

Whitespace == {" ", "\n"}

Digits == <<"0", "1", "2", "3", "4", "5", "6", "7", "8", "9">>

DigitValue(c) == (CHOOSE k \in 1..Len(Digits) : Digits[k] = c) - 1

DigitChars == {Digits[k] : k \in 1..Len(Digits)}

\* Length of the longest prefix of s made of characters of set S.
RECURSIVE PrefixIn(_, _)
PrefixIn(s, S) ==
    IF s = <<>> \/ Head(s) \notin S THEN 0 ELSE 1 + PrefixIn(Tail(s), S)

\* Length of the longest prefix of s made of characters outside set S.
RECURSIVE PrefixNotIn(_, _)
PrefixNotIn(s, S) ==
    IF s = <<>> \/ Head(s) \in S THEN 0 ELSE 1 + PrefixNotIn(Tail(s), S)

Drop(s, n) == SubSeq(s, n + 1, Len(s))

Take(s, n) == SubSeq(s, 1, n)

LStrip(s) == Drop(s, PrefixIn(s, Whitespace))

RStrip(s) == Reversed(LStrip(Reversed(s)))

\* str.strip()
Strip(s) == RStrip(LStrip(s))

\* str.split(maxsplit=1): at most two fields, cut at the first whitespace run.
Split1(s) ==
    LET t == LStrip(s)
        n == PrefixNotIn(t, Whitespace)
        rest == LStrip(Drop(t, n))
    IN  IF t = <<>> THEN <<>>
        ELSE IF rest = <<>> THEN <<Take(t, n)>>
        ELSE <<Take(t, n), rest>>

\* Value of a non-empty run of decimal digits.
RECURSIVE DecimalValue(_)
DecimalValue(ds) ==
    IF ds = <<>> THEN 0
    ELSE 10 * DecimalValue(Take(ds, Len(ds) - 1)) + DigitValue(ds[Len(ds)])

\* int(s): an optional sign then decimal digits, else ValueError quoting s.
int(s) ==
    LET t == Strip(s)
        signed == t # <<>> /\ Head(t) \in {"-", "+"}
        ds == IF signed THEN Tail(t) ELSE t
    IN  IF ds # <<>> /\ PrefixIn(ds, DigitChars) = Len(ds)
        THEN [error |-> "None",
              value |-> IF signed /\ Head(t) = "-" THEN 0 - DecimalValue(ds)
                        ELSE DecimalValue(ds),
              text |-> <<>>]
        ELSE [error |-> "ValueError", value |-> 0, text |-> s]

\* str(n) for an integer n.
RECURSIVE str(_)
str(n) ==
    IF n < 0 THEN <<"-">> \o str(0 - n)
    ELSE IF n < 10 THEN <<Digits[n + 1]>>
    ELSE str(n \div 10) \o <<Digits[(n % 10) + 1]>>

\* dict[k] = v
Put(d, k, v) == [x \in (DOMAIN d) \cup {k} |-> IF x = k THEN v ELSE d[x]]

----------------------------------------------------------------------------
(* The label file read in main, lines 109-111: every line is stripped and  *)
(* split in two, and the first field is given to int.                      *)

RECURSIVE MainLabels(_, _)
MainLabels(ls, acc) ==
    IF ls = <<>> THEN [error |-> "None", value |-> acc, text |-> <<>>]
    ELSE LET pair == Split1(Strip(Head(ls)))
         IN  IF Len(pair) # 2
             THEN [error |-> "ValueError", value |-> acc, text |-> <<>>]  \* unpacking k, v
             ELSE LET k == int(pair[1])
                  IN  IF k.error # "None"
                      THEN [error |-> k.error, value |-> acc, text |-> k.text]
                      ELSE MainLabels(Tail(ls), Put(acc, k.value, pair[2]))

----------------------------------------------------------------------------
(* load_labels, lines 32-36. *)

\* re.compile(r'\s*(\d+)(.+)').match(line): the groups, or None.  \s* takes
\* the leading whitespace, \d+ the longest run of digits that leaves (.+) at
\* least one character, and (.+) every character up to the newline.
Match(line) ==
    LET ws == PrefixIn(line, Whitespace)
        after == Drop(line, ws)
        run == PrefixIn(after, DigitChars)
        fits == {d \in 1..run : PrefixNotIn(Drop(after, d), {"\n"}) >= 1}
    IN  IF fits = {} THEN [matched |-> FALSE, num |-> <<>>, text |-> <<>>]
        ELSE LET d == CHOOSE x \in fits : \A y \in fits : y <= x
                 rest == Drop(after, d)
             IN  [matched |-> TRUE,
                  num |-> Take(after, d),
                  text |-> Take(rest, PrefixNotIn(rest, {"\n"}))]

RECURSIVE LoadLines(_, _)
LoadLines(ls, acc) ==
    IF ls = <<>> THEN [error |-> "None", value |-> acc, text |-> <<>>]
    ELSE LET m == Match(Head(ls))
         IN  IF ~m.matched
             THEN [error |-> "AttributeError", value |-> acc, text |-> <<>>]  \* None.groups()
             ELSE LoadLines(Tail(ls), Put(acc, DecimalValue(m.num), Strip(m.text)))

load_labels(ls) == LoadLines(ls, [k \in {} |-> <<>>])

----------------------------------------------------------------------------
(* set_interpreter line 63, with input_size and input_tensor, lines 47-55. *)

\* (width, height, channels) of the shape <<1, height, width, channels>>
input_size(shp) == <<shp[3], shp[2], shp[4]>>

\* Shape of input_tensor(interpreter): the tensor's first element.
input_tensor_shape(shp) == <<shp[2], shp[3], shp[4]>>

\* Length of np.frombuffer(imagen.get_buffer(), dtype=np.uint8): one flat run
\* of bytes, which carries no dimensions.
BufferSize(d) == d.width * d.height * d.channels

Product(t) == t[1] * t[2] * t[3]

\* numpy broadcasting of a value of shape src into a target of shape dst.
Broadcastable(src, dst) == \A k \in 1..3 : src[k] = dst[k] \/ src[k] = 1

\* input_tensor(interpreter)[:,:] = np.reshape(data, input_size(interpreter))
write_input(shp, d) ==
    IF BufferSize(d) # Product(input_size(shp)) THEN "ValueError"      \* np.reshape
    ELSE IF ~Broadcastable(input_size(shp), input_tensor_shape(shp))
         THEN "ValueError"                                             \* the assignment
    ELSE "None"

----------------------------------------------------------------------------
(* The label text of line 151. *)

StrValue(t) == [type |-> "str", str |-> t, int |-> 0]

IntValue(n) == [type |-> "int", str |-> <<>>, int |-> n]

\* labels.get(key, default)
dict_get(d, key, default) == IF key \in DOMAIN d THEN StrValue(d[key]) ELSE default

\* "%s" % v
FormatS(v) == IF v.type = "str" THEN v.str ELSE str(v.int)

\* The label with labels[result.id] in place of labels.get.
label_subscript(result, lbls) ==
    IF result.id \in DOMAIN lbls
    THEN [error |-> "None",
          value |-> str(result.score) \o <<"%", " ">> \o lbls[result.id]]
    ELSE [error |-> "KeyError", value |-> <<>>]

\* label = "%.0f%% %s" % (100*result.score, labels.get(result.id, result.id))
label(result, lbls) ==
    [error |-> "None",
     value |-> str(result.score) \o <<"%", " ">>
               \o FormatS(dict_get(lbls, result.id, IntValue(result.id)))]

\* The for loop of lines 147-153 from result k on: the texts blitted, and the
\* exception that ended the loop if one did.
RECURSIVE DrawLoop(_, _, _, _)
DrawLoop(rs, lbls, k, acc) ==
    IF k > Len(rs) THEN [error |-> "None", value |-> acc]
    ELSE LET l == label(rs[k], lbls)
         IN  IF l.error # "None" THEN [error |-> l.error, value |-> acc]
             ELSE DrawLoop(rs, lbls, k + 1, Append(acc, l.value))

----------------------------------------------------------------------------
(* main, lines 93-159, one action per statement group.  A call into pygame *)
(* or the interpreter either returns or raises.                            *)

EmptyDict == [k \in {} |-> <<>>]

InTry == {"get_image", "scale", "set_interpreter", "get_output", "annotate", "present"}

\* An exception raised at the current position: out of the try block through
\* finally, and straight out of main before it.
Raise(kind, text) ==
    /\ error' = kind
    /\ error_text' = text
    /\ raised_at' = pc
    /\ pc' = IF pc \in InTry THEN "finally" ELSE "exit"

\* Lines 109-111.
OpenLabels ==
    /\ pc = "open_labels"
    /\ LET r == MainLabels(lines, EmptyDict)
       IN  IF r.error = "None"
           THEN /\ labels' = r.value
                /\ pc' = "make_interpreter"
                /\ UNCHANGED <<error, error_text, raised_at>>
           ELSE /\ Raise(r.error, r.text)
                /\ UNCHANGED labels
    /\ UNCHANGED <<lines, shape, data, writes, invokes, boxes, class_ids, scores, count,
                   score_threshold, results, started, stop_calls, captures, reads,
                   drawn, presents, infer_ok, infer_failed>>

\* Lines 115-116.
MakeInterpreter ==
    /\ pc = "make_interpreter"
    /\ \/ /\ pc' = "load_labels"
          /\ UNCHANGED <<error, error_text, raised_at>>
       \/ Raise("ValueError", <<>>)
    /\ UNCHANGED <<lines, labels, shape, data, writes, invokes, boxes, class_ids, scores,
                   count, score_threshold, results, started, stop_calls, captures,
                   reads, drawn, presents, infer_ok, infer_failed>>

\* Line 117.
LoadLabels ==
    /\ pc = "load_labels"
    /\ LET r == load_labels(lines)
       IN  IF r.error = "None"
           THEN /\ labels' = r.value
                /\ pc' = "pygame_init"
                /\ UNCHANGED <<error, error_text, raised_at>>
           ELSE /\ Raise(r.error, r.text)
                /\ UNCHANGED labels
    /\ UNCHANGED <<lines, shape, data, writes, invokes, boxes, class_ids, scores, count,
                   score_threshold, results, started, stop_calls, captures, reads,
                   drawn, presents, infer_ok, infer_failed>>

\* Lines 119-130: pygame, the camera list, the Camera object and the display.
PygameInit ==
    /\ pc = "pygame_init"
    /\ \/ /\ pc' = "camera_start"
          /\ UNCHANGED <<error, error_text, raised_at>>
       \/ Raise("IndexError", <<>>)        \* camlist[0] with no camera
       \/ Raise("pygame.error", <<>>)
    /\ UNCHANGED <<lines, labels, shape, data, writes, invokes, boxes, class_ids, scores,
                   count, score_threshold, results, started, stop_calls, captures,
                   reads, drawn, presents, infer_ok, infer_failed>>

\* Line 132, before the try block.
CameraStart ==
    /\ pc = "camera_start"
    /\ \/ /\ started' = TRUE
          /\ pc' = "get_image"
          /\ UNCHANGED <<error, error_text, raised_at>>
       \/ /\ Raise("SystemError", <<>>)
          /\ UNCHANGED started
    /\ UNCHANGED <<lines, labels, shape, data, writes, invokes, boxes, class_ids, scores,
                   count, score_threshold, results, stop_calls, captures, reads,
                   drawn, presents, infer_ok, infer_failed>>

\* GetImage leaving main without passing through finally on a capture failure.
GetImageLeak ==
    /\ pc = "get_image"
    /\ captures < MaxFrames
    /\ captures' = captures + 1
    /\ \/ /\ pc' = "scale"
          /\ drawn' = <<>>
          /\ UNCHANGED <<error, error_text, raised_at>>
       \/ /\ error' = "SystemError"
          /\ error_text' = <<>>
          /\ raised_at' = pc
          /\ pc' = "exit"
          /\ UNCHANGED drawn
    /\ UNCHANGED <<lines, labels, shape, data, writes, invokes, boxes, class_ids, scores,
                   count, score_threshold, results, started, stop_calls, reads,
                   presents, infer_ok, infer_failed>>

\* Line 136: a fresh surface, nothing drawn on it yet.
GetImage ==
    /\ pc = "get_image"
    /\ captures < MaxFrames
    /\ captures' = captures + 1
    /\ \/ /\ pc' = "scale"
          /\ drawn' = <<>>
          /\ UNCHANGED <<error, error_text, raised_at>>
       \/ /\ Raise("SystemError", <<>>)
          /\ UNCHANGED drawn
    /\ UNCHANGED <<lines, labels, shape, data, writes, invokes, boxes, class_ids, scores,
                   count, score_threshold, results, started, stop_calls, reads,
                   presents, infer_ok, infer_failed>>

\* Bytes per pixel of a camera surface.
SurfaceBytes == {3, 4}

\* Lines 137-138: the surface scaled to (w, h) keeps its bytes per pixel.
Scale ==
    /\ pc = "scale"
    /\ \/ /\ \E bytes \in SurfaceBytes :
                 data' = [width |-> input_size(shape)[1],
                          height |-> input_size(shape)[2],
                          channels |-> bytes]
          /\ pc' = "set_interpreter"
          /\ UNCHANGED <<error, error_text, raised_at>>
       \/ /\ Raise("pygame.error", <<>>)
          /\ UNCHANGED data
    /\ UNCHANGED <<lines, labels, shape, writes, invokes, boxes, class_ids, scores, count,
                   score_threshold, results, started, stop_calls, captures, reads,
                   drawn, presents, infer_ok, infer_failed>>

\* What invoke() may leave in the four output tensors (N = 2).
EngineOutputs ==
    [boxes : {<<FullFrameRow, <<Zero - 1, Zero, One + 1, One>>>>},
     class_ids : {<<1, 2>>, <<3, 1>>},
     scores : {<<2, 1>>, <<1, 2>>},
     count : 0..3]

\* SetInterpreter going on to get_output after a failed invoke().
SetInterpreterSwallow ==
    /\ pc = "set_interpreter"
    /\ LET w == write_input(shape, data)
       IN  IF w # "None"
           THEN /\ Raise(w, <<>>)
                /\ UNCHANGED <<writes, invokes, boxes, class_ids, scores, count,
                               infer_ok, infer_failed>>
           ELSE /\ writes' = writes + 1
                /\ invokes' = invokes + 1
                /\ \/ /\ \E out \in EngineOutputs :
                             /\ boxes' = out.boxes
                             /\ class_ids' = out.class_ids
                             /\ scores' = out.scores
                             /\ count' = out.count
                      /\ infer_ok' = infer_ok + 1
                      /\ pc' = "get_output"
                      /\ UNCHANGED <<error, error_text, raised_at, infer_failed>>
                   \/ /\ infer_failed' = TRUE
                      /\ pc' = "get_output"
                      /\ UNCHANGED <<error, error_text, raised_at, boxes, class_ids,
                                     scores, count, infer_ok>>
    /\ UNCHANGED <<lines, labels, shape, data, score_threshold, results, started,
                   stop_calls, captures, reads, drawn, presents>>

\* Line 140, set_interpreter (lines 62-64): the write, then invoke().
SetInterpreter ==
    /\ pc = "set_interpreter"
    /\ LET w == write_input(shape, data)
       IN  IF w # "None"
           THEN /\ Raise(w, <<>>)
                /\ UNCHANGED <<writes, invokes, boxes, class_ids, scores, count,
                               infer_ok, infer_failed>>
           ELSE /\ writes' = writes + 1
                /\ invokes' = invokes + 1
                /\ \/ /\ \E out \in EngineOutputs :
                             /\ boxes' = out.boxes
                             /\ class_ids' = out.class_ids
                             /\ scores' = out.scores
                             /\ count' = out.count
                      /\ infer_ok' = infer_ok + 1
                      /\ pc' = "get_output"
                      /\ UNCHANGED <<error, error_text, raised_at, infer_failed>>
                   \/ /\ infer_failed' = TRUE
                      /\ Raise("RuntimeError", <<>>)
                      /\ UNCHANGED <<boxes, class_ids, scores, count, infer_ok>>
    /\ UNCHANGED <<lines, labels, shape, data, score_threshold, results, started,
                   stop_calls, captures, reads, drawn, presents>>

\* Line 141.
GetOutput ==
    /\ pc = "get_output"
    /\ reads' = reads + 1
    /\ LET r == get_output(boxes, class_ids, scores, count, score_threshold)
       IN  IF r.error = "None"
           THEN /\ results' = r.value
                /\ pc' = "annotate"
                /\ UNCHANGED <<error, error_text, raised_at>>
           ELSE /\ Raise(r.error, <<>>)
                /\ UNCHANGED results
    /\ UNCHANGED <<lines, labels, shape, data, writes, invokes, boxes, class_ids, scores,
                   count, score_threshold, started, stop_calls, captures, drawn,
                   presents, infer_ok, infer_failed>>

\* Lines 146-153: every result is drawn, unless building a label or pygame
\* raises part of the way.
Annotate ==
    /\ pc = "annotate"
    /\ LET r == DrawLoop(results, labels, 1, <<>>)
       IN  \/ /\ drawn' = r.value
              /\ IF r.error = "None"
                 THEN /\ pc' = "present"
                      /\ UNCHANGED <<error, error_text, raised_at>>
                 ELSE Raise(r.error, <<>>)
           \/ /\ \E k \in 0..Len(r.value) : drawn' = SubSeq(r.value, 1, k)
              /\ Raise("pygame.error", <<>>)
    /\ UNCHANGED <<lines, labels, shape, data, writes, invokes, boxes, class_ids, scores,
                   count, score_threshold, results, started, stop_calls, captures,
                   reads, presents, infer_ok, infer_failed>>

\* Lines 154-157.
Present ==
    /\ pc = "present"
    /\ \/ /\ presents' = presents + 1
          /\ pc' = "get_image"
          /\ UNCHANGED <<error, error_text, raised_at>>
       \/ /\ Raise("pygame.error", <<>>)
          /\ UNCHANGED presents
    /\ UNCHANGED <<lines, labels, shape, data, writes, invokes, boxes, class_ids, scores,
                   count, score_threshold, results, started, stop_calls, captures,
                   reads, drawn, infer_ok, infer_failed>>

\* The stop signal (KeyboardInterrupt) inside the try block.
Interrupt ==
    /\ pc \in InTry
    /\ Raise("KeyboardInterrupt", <<>>)
    /\ UNCHANGED <<lines, labels, shape, data, writes, invokes, boxes, class_ids, scores,
                   count, score_threshold, results, started, stop_calls, captures,
                   reads, drawn, presents, infer_ok, infer_failed>>

\* Lines 158-159.
Finally ==
    /\ pc = "finally"
    /\ stop_calls' = stop_calls + 1
    /\ pc' = "exit"
    /\ UNCHANGED <<lines, labels, shape, data, writes, invokes, boxes, class_ids, scores,
                   count, score_threshold, results, error, raised_at, error_text,
                   started, captures, reads, drawn, presents, infer_ok, infer_failed>>

----------------------------------------------------------------------------
(* Values of the variables a specification does not exercise.              *)

NoData == [width |-> 0, height |-> 0, channels |-> 0]

NoError ==
    /\ error = "None"
    /\ raised_at = "None"
    /\ error_text = <<>>

Counters ==
    /\ writes = 0
    /\ invokes = 0
    /\ stop_calls = 0
    /\ captures = 0
    /\ reads = 0
    /\ presents = 0
    /\ infer_ok = 0

\* The output tensors as allocate_tensors leaves them.
OutputsAllocated ==
    /\ boxes = <<<<0, 0, 0, 0>>, <<0, 0, 0, 0>>>>
    /\ class_ids = <<0, 0>>
    /\ scores = <<0, 0>>
    /\ count = 0

BeforeCamera ==
    /\ started = FALSE
    /\ infer_failed = FALSE
    /\ drawn = <<>>
    /\ results = <<>>
    /\ data = NoData

----------------------------------------------------------------------------
(* Spec: main from its first statement, over a few label files, input      *)
(* shapes and thresholds.                                                  *)

T1a == <<"1", " ", "a", "\n">>

T2b == <<" ", "2", " ", " ", "b", " ", "\n">>

SampleFiles ==
    { <<T1a>>,
      <<T1a, T2b>>,
      <<T1a, <<"\n">>>>,                          \* a blank line
      <<<<"-", "1", " ", "a", "\n">>, T1a>> }     \* a signed id

SampleShapes == {<<1, 2, 2, 3>>, <<1, 2, 1, 3>>}

Init ==
    /\ pc = "open_labels"
    /\ lines \in SampleFiles
    /\ labels = EmptyDict
    /\ shape \in SampleShapes
    /\ score_threshold \in 1..MaxScore
    /\ OutputsAllocated
    /\ BeforeCamera
    /\ Counters
    /\ NoError

Next ==
    \/ OpenLabels
    \/ MakeInterpreter
    \/ LoadLabels
    \/ PygameInit
    \/ CameraStart
    \/ GetImage
    \/ Scale
    \/ SetInterpreter
    \/ GetOutput
    \/ Annotate
    \/ Present
    \/ Interrupt
    \/ Finally

Spec == Init /\ [][Next]_vars

----------------------------------------------------------------------------
(* SpecDecode: the decoder alone.  The engine's four output tensors and    *)
(* the threshold are drawn, then get_output is called once.                *)

Coords == (Zero - CoordSlack)..(One + CoordSlack)

Rows == {<<ymin, xmin, ymax, xmax>> : ymin \in Coords, xmin \in Coords,
                                      ymax \in Coords, xmax \in Coords}

\* Box tensors of n rows in which one row is arbitrary.
BoxTensors(n) ==
    {[k \in 1..n |-> IF k = p THEN row ELSE FullFrameRow] : p \in 1..n, row \in Rows}

\* Class-id tensors of n pairwise different ids: the rotations of 1..n.
IdTensors(n) == {[k \in 1..n |-> ((k + r) % n) + 1] : r \in 0..(n - 1)}

ScoreTensors(n) == [1..n -> 0..MaxScore]

\* Any scores, count and threshold over full-frame boxes.
InitScores ==
    \E n \in 2..MaxN :
        /\ boxes = [k \in 1..n |-> FullFrameRow]
        /\ class_ids \in IdTensors(n)
        /\ scores \in ScoreTensors(n)
        /\ count \in 0..(n + MaxOver)
        /\ score_threshold \in 0..MaxScore

\* Any one box row, every score at the threshold.
InitBoxes ==
    \E n \in 2..MaxN :
        /\ boxes \in BoxTensors(n)
        /\ class_ids = [k \in 1..n |-> k]
        /\ scores = [k \in 1..n |-> MaxScore]
        /\ count \in 0..n
        /\ score_threshold = MaxScore

InitDecode ==
    /\ pc = "get_output"
    /\ InitScores \/ InitBoxes
    /\ lines = <<>>
    /\ labels = EmptyDict
    /\ shape = <<1, 2, 2, 3>>
    /\ BeforeCamera
    /\ Counters
    /\ NoError

NextDecode == GetOutput

SpecDecode == InitDecode /\ [][NextDecode]_vars

----------------------------------------------------------------------------
(* SpecWrite: set_interpreter alone, over every frame size and input shape *)
(* within the bounds.                                                      *)

InitWrite ==
    /\ pc = "set_interpreter"
    /\ shape \in {<<1, h, w, 3>> : h \in 1..MaxDim, w \in 1..MaxDim}
    /\ data \in [width : 1..MaxDim, height : 1..MaxDim, channels : SurfaceBytes]
    /\ lines = <<>>
    /\ labels = EmptyDict
    /\ score_threshold = 1
    /\ OutputsAllocated
    /\ started = FALSE
    /\ infer_failed = FALSE
    /\ drawn = <<>>
    /\ results = <<>>
    /\ Counters
    /\ NoError

NextWrite == SetInterpreter

SpecWrite == InitWrite /\ [][NextWrite]_vars

----------------------------------------------------------------------------
(* SpecLabels: the startup of main up to camera.start(), over label files  *)
(* that hold one arbitrary line, alone or beside a well-formed one.        *)

MaxLineLen == 4    \* characters of the arbitrary line, its newline apart

Alphabet == {"1", " ", "a", "-"}

RECURSIVE Texts(_)
Texts(n) ==
    IF n = 0 THEN {<<>>}
    ELSE Texts(n - 1) \cup {Append(t, c) : t \in {u \in Texts(n - 1) : Len(u) = n - 1},
                                          c \in Alphabet}

\* The lines readlines() can return: newline-terminated, or the unterminated
\* non-empty last line of the file.
TerminatedLines == {Append(t, "\n") : t \in Texts(MaxLineLen)}

LastLines == TerminatedLines \cup (Texts(MaxLineLen) \ {<<>>})

LabelFiles ==
    {<<l>> : l \in LastLines}
        \cup {<<T2b, l>> : l \in LastLines}
        \cup {<<l, T2b>> : l \in TerminatedLines}

InitLabels ==
    /\ pc = "open_labels"
    /\ lines \in LabelFiles
    /\ labels = EmptyDict
    /\ shape = <<1, 2, 2, 3>>
    /\ score_threshold = 1
    /\ OutputsAllocated
    /\ BeforeCamera
    /\ Counters
    /\ NoError

NextLabels ==
    \/ OpenLabels
    \/ MakeInterpreter
    \/ LoadLabels
    \/ PygameInit
    \/ CameraStart

SpecLabels == InitLabels /\ [][NextLabels]_vars

----------------------------------------------------------------------------
(* Properties of the decoder (SpecDecode).  The class ids of a drawn       *)
(* tensor are pairwise different, so a returned object names its index.    *)

N == Len(scores)

Indices == 0..(N - 1)

IndexOf(id) == CHOOSE i \in Indices : At(class_ids, i) = id

Returned(i) == \E p \in 1..Len(results) : results[p].id = At(class_ids, i)

Passing == {i \in Indices : i < count /\ At(scores, i) >= score_threshold}

InRange(v) == Zero <= v /\ v <= One

\* C2: the bbox of every returned object is the engine row (ymin, xmin, ymax,
\* xmax) of its index with xmin and ymin raised to 0 when below it, xmax and
\* ymax lowered to 1 when above it, each edge alone, y-first mapped to x-first,
\* and the min and max edges never exchanged.
C2_ClampPerEdge ==
    pc = "annotate" =>
        \A p \in 1..Len(results) :
            LET row == At(boxes, IndexOf(results[p].id))
                b == results[p].bbox
            IN  /\ b.xmin = (IF row[2] < 0 THEN 0 ELSE row[2])
                /\ b.ymin = (IF row[1] < 0 THEN 0 ELSE row[1])
                /\ b.xmax = (IF row[4] > 1 THEN 1 ELSE row[4])
                /\ b.ymax = (IF row[3] > 1 THEN 1 ELSE row[3])

\* An in-range row whose x and y edges differ and whose xmin exceeds its xmax,
\* and a row with every edge out of range, both returned.
C2_Witness ==
    /\ pc = "annotate"
    /\ \E p \in 1..Len(results) :
           /\ At(boxes, IndexOf(results[p].id)) = <<0, 1, 1, 0>>
           /\ results[p].bbox = BBox(1, 0, 0, 1)

\* C3 as stated: all four coordinates of every returned bbox lie in [0,1].
C3_AllInUnitRange ==
    pc = "annotate" =>
        \A p \in 1..Len(results) :
            LET b == results[p].bbox
            IN  InRange(b.xmin) /\ InRange(b.ymin) /\ InRange(b.xmax) /\ InRange(b.ymax)

\* C3 amended: every returned bbox has xmin >= 0, ymin >= 0, xmax <= 1 and
\* ymax <= 1; all four coordinates lie in [0,1] when the engine row has
\* xmin <= 1, ymin <= 1, xmax >= 0 and ymax >= 0.
C3_OneSidedClamp ==
    pc = "annotate" =>
        \A p \in 1..Len(results) :
            LET row == At(boxes, IndexOf(results[p].id))
                b == results[p].bbox
            IN  /\ b.xmin >= 0 /\ b.ymin >= 0 /\ b.xmax <= 1 /\ b.ymax <= 1
                /\ (row[2] <= 1 /\ row[1] <= 1 /\ row[4] >= 0 /\ row[3] >= 0) =>
                       (InRange(b.xmin) /\ InRange(b.ymin) /\ InRange(b.xmax) /\ InRange(b.ymax))

\* A returned object whose engine row lies outside [0,1] on every edge, on the
\* sides the clamps act on.
C3_Witness ==
    /\ pc = "annotate"
    /\ \E p \in 1..Len(results) :
           /\ At(boxes, IndexOf(results[p].id)) = <<0 - 1, 0 - 1, 2, 2>>
           /\ results[p].bbox = BBox(0, 0, 1, 1)

\* C4 as stated: a count above the capacity N makes get_output fail with
\* MalformedOutput, returning no objects.
C4_MalformedOutput ==
    (pc # "get_output" /\ count > N) => (error = "MalformedOutput" /\ results = <<>>)

\* C8: the returned objects are in increasing index order, whatever their
\* scores, and every passing index is returned exactly once.
C8_EngineOrder ==
    pc = "annotate" =>
        /\ \A p, q \in 1..Len(results) :
               p < q => IndexOf(results[p].id) < IndexOf(results[q].id)
        /\ Len(results) = Cardinality(Passing)

\* Two returned objects, the earlier with the lower score.
C8_Witness ==
    /\ pc = "annotate"
    /\ Len(results) = 2
    /\ results[1].score < results[2].score
    /\ IndexOf(results[1].id) < IndexOf(results[2].id)

----------------------------------------------------------------------------
(* Properties of main (Spec). *)

\* C5: camera.stop() is called at most once, only after camera.start() has
\* returned, and exactly once by the time main is left after the frame loop
\* was entered, whichever statement of the loop raised.
C5_StopExactlyOnce ==
    /\ stop_calls <= 1
    /\ stop_calls = 1 => started
    /\ (pc = "exit" /\ started) => stop_calls = 1
    /\ (pc = "exit" /\ ~started) => stop_calls = 0

\* A capture failure in the second frame, after the first was presented.
C5_Witness ==
    /\ pc = "exit"
    /\ started
    /\ raised_at = "get_image"
    /\ captures = 2
    /\ presents = 1
    /\ stop_calls = 1

\* C6: building a label never raises, whatever the class id; once the frame
\* is annotated every result has its text drawn, and the text of a result
\* whose id is absent from the labels ends in the id's decimal digits.
C6_UnknownIdFallback ==
    /\ error \notin {"KeyError", "TypeError"}
    /\ raised_at = "annotate" => error \in {"pygame.error", "KeyboardInterrupt"}
    /\ pc = "present" =>
           /\ Len(drawn) = Len(results)
           /\ \A p \in 1..Len(results) :
                  results[p].id \notin DOMAIN labels =>
                      drawn[p] = str(results[p].score) \o <<"%", " ">> \o str(results[p].id)

\* An annotated frame whose first detection has an unknown id and whose second
\* detection, a known one, is drawn after it.
C6_Witness ==
    /\ pc = "present"
    /\ Len(results) = 2
    /\ results[1].id = 3
    /\ 3 \notin DOMAIN labels
    /\ results[2].id \in DOMAIN labels
    /\ drawn = << <<"2", "%", " ", "3">>, <<"1", "%", " ", "a">> >>

\* C10: once invoke() has raised, main is on its way out through finally and
\* camera.stop(); from the failing step on nothing is captured, read, decoded,
\* drawn or presented; and no frame is ever read or presented without an
\* invoke() that returned for it.
C10_InferenceFatal ==
    /\ [](infer_failed => /\ pc \in {"finally", "exit"}
                          /\ raised_at = "set_interpreter"
                          /\ pc = "exit" => stop_calls = 1)
    /\ [](reads <= infer_ok /\ presents <= infer_ok)
    /\ [][infer_failed' => UNCHANGED <<captures, reads, results, drawn, presents>>]_vars

\* invoke() fails on the second frame, the first frame's detections still in
\* the output tensors and in results.
C10_Witness ==
    /\ infer_failed
    /\ pc = "exit"
    /\ infer_ok = 1
    /\ presents = 1
    /\ reads = 1
    /\ captures = 2
    /\ Len(results) = 2
    /\ stop_calls = 1

----------------------------------------------------------------------------
(* Properties of the label loading (SpecLabels). *)

\* A line of the form <int> <text>: digits, whitespace, text, with whitespace
\* allowed around them.
WellFormed(line) ==
    LET t == Strip(line)
        d == PrefixIn(t, DigitChars)
    IN  d >= 1 /\ d < Len(t) /\ t[d + 1] \in Whitespace

MalformedLines == {k \in 1..Len(lines) : ~WellFormed(lines[k])}

FirstMalformed == CHOOSE k \in MalformedLines : \A j \in MalformedLines : k <= j

LabelsPending == {"open_labels", "make_interpreter", "load_labels"}

\* C7 as stated: when the label file holds a malformed line, loading the labels
\* ends main before the camera is started, with a ParseError that names the
\* first such line.
C7_ParseError ==
    (/\ MalformedLines # {}
     /\ pc \notin LabelsPending
     /\ raised_at \in {"None", "open_labels", "load_labels"}) =>
        /\ pc = "exit"
        /\ ~started
        /\ error = "ParseError"
        /\ error_text = lines[FirstMalformed]

----------------------------------------------------------------------------
(* Properties of the input write (SpecWrite). *)

FrameDims(d) == <<d.width, d.height, d.channels>>

\* The shape error the specification names, and the class numpy raises for one.
ShapeErrors == {"ShapeMismatch", "ValueError"}

\* C9 as stated: a frame whose dimensions differ from input_size() makes
\* set_interpreter fail with a shape error, nothing being written to the
\* input tensor and the engine not being invoked.
C9_ShapeMismatch ==
    (pc # "set_interpreter" /\ FrameDims(data) # input_size(shape)) =>
        /\ error \in ShapeErrors
        /\ writes = 0
        /\ invokes = 0

====
